---- MODULE Spec2Model ----
(***************************************************************************)
(* State-machine model of runtime/src/substratekitties.rs: the storage     *)
(* items of decl_storage!, the five dispatchable functions of decl_module! *)
(* and the two helpers _mint and _transfer_from.                           *)
(*                                                                         *)
(* A dispatchable that returns Err keeps every storage write it made       *)
(* before the error (this runtime has no transactional dispatch), so each  *)
(* function is modelled as the sequence of its reads, checks and writes.   *)
(***************************************************************************)
EXTENDS Integers, Sequences, FiniteSets, TLC

\* ------------------------------------------------------------------ bounds

\* Largest value of the u64 counters, scaled down so that checked_add can fail.
U64Max == 3

\* Largest price / max_price a caller passes.
MaxPrice == 1

\* Free balance every account starts with.
InitBalance == 1

\* ------------------------------------------------------------------- types

Accounts == {"alice", "bob"}

\* An origin is a signed account or an unsigned (root / inherent) origin.
UnsignedOrigin == "unsigned"

Origins == Accounts \cup {UnsignedOrigin}

\* T::Hash is a fixed-width byte string, here <<b1, b2>>: two bytes stand for
\* the 32 of H256.  HashBytes are the byte positions.
HashBytes == {1, 2}

\* Hash::default(), what StorageMap::get returns for a missing T::Hash value.
ZeroHash == <<0, 0>>

\* The values the hashing of (random_seed, sender, nonce) produces in the
\* model, in the order in which fresh ones are handed out.  A hash is never the
\* all-zero default value.  Their number bounds the number of kitties.
HashSequence == << <<1, 2>>, <<2, 1>> >>

HashOutputs == {HashSequence[i] : i \in DOMAIN HashSequence}

\* The kitty ids a caller passes: every hash output, and one hash that is no
\* kitty's id.
KittyIds == HashOutputs \cup {ZeroHash}

Prices == 0..MaxPrice

\* Kitty::default(), what <Kitties<T>>::get returns for a missing key.
DefaultKitty == [id |-> ZeroHash, dna |-> ZeroHash, price |-> 0, gen |-> 0]

\* Option::None of checked_add / checked_sub.
None == -1

Ok == "Ok"

\* ------------------------------------------------------------------- state

VARIABLES
    Kitties,            \* map T::Hash => Kitty
    KittyOwner,         \* map T::Hash => Option<AccountId>
    AllKittiesArray,    \* map u64 => T::Hash
    AllKittiesCount,    \* u64
    AllKittiesIndex,    \* map T::Hash => u64
    OwnedKittiesArray,  \* map (AccountId, u64) => T::Hash
    OwnedKittiesCount,  \* map AccountId => u64
    OwnedKittiesIndex,  \* map T::Hash => u64
    Nonce,              \* u64
    FreeBalance,        \* the ledger of the balances module
    last                \* the last dispatched call: its name, its Result, its events

storage == <<Kitties, KittyOwner, AllKittiesArray, AllKittiesCount, AllKittiesIndex,
             OwnedKittiesArray, OwnedKittiesCount, OwnedKittiesIndex, Nonce>>

vars == <<Kitties, KittyOwner, AllKittiesArray, AllKittiesCount, AllKittiesIndex,
          OwnedKittiesArray, OwnedKittiesCount, OwnedKittiesIndex, Nonce,
          FreeBalance, last>>

\* The storage of the module (and the ledger) as one value, threaded through a
\* call, with the events the call has deposited so far.
Store == [Kitties |-> Kitties, KittyOwner |-> KittyOwner,
          AllKittiesArray |-> AllKittiesArray, AllKittiesCount |-> AllKittiesCount,
          AllKittiesIndex |-> AllKittiesIndex, OwnedKittiesArray |-> OwnedKittiesArray,
          OwnedKittiesCount |-> OwnedKittiesCount, OwnedKittiesIndex |-> OwnedKittiesIndex,
          Nonce |-> Nonce, FreeBalance |-> FreeBalance, events |-> <<>>]

\* ------------------------------------------------------- storage primitives

\* StorageMap::exists
Exists(m, k) == k \in DOMAIN m

\* StorageMap::get: the stored value, or the type's default for a missing key.
Get(m, k, default) == IF k \in DOMAIN m THEN m[k] ELSE default

\* StorageMap::insert
Insert(m, k, v) == [x \in (DOMAIN m) \cup {k} |-> IF x = k THEN v ELSE m[x]]

\* StorageMap::remove
Remove(m, k) == [x \in (DOMAIN m) \ {k} |-> m[x]]

EmptyMap == [x \in {} |-> 0]

\* u64::checked_add
checked_add(x, y) == IF x + y > U64Max THEN None ELSE x + y

\* u64::checked_sub
checked_sub(x, y) == IF x - y < 0 THEN None ELSE x - y

\* cmp::max
max(x, y) == IF x >= y THEN x ELSE y

\* A call's outcome: its Result and the storage it leaves behind.
Outcome(result, S) == [result |-> result, S |-> S]

\* ------------------------------------------------------------------ errors

ErrBadOrigin == "bad origin: expected to be a signed origin"
ErrIdExists == "the kitty coressponding to this ID already exit!"
ErrNoKitty == "Error: invalid kitty id: this kitty does not exist"
ErrNoOwner == "Error: there is no owner for this kitty"
ErrNotOwner == "Error: you have no ownership to this kitty"
ErrOwnKitty == "Error: you can not buy your own kitty"
ErrNotForSale == "Error: this kitty you want to buy is not for sale"
ErrTooExpensive == "Error: this kitty you want to buy costs more than your max price"
ErrNoCat1 == "Error: this cat 1 does not exist"
ErrNoCat2 == "Error: this cat 2 does not exist"
ErrMintOverflowOwned == "Error: Overflow happed when trying to register a new kitty in your account balance"
ErrMintOverflowAll == "Error: Overflow happened when trying to register a new kitty"
ErrFromNotOwner == "Error: from account have no ownership for this kitty"
ErrTransferOverflow == "Error: happend overflow of to kitty balance while executing transfer method"
ErrTransferUnderflow == "Error: happend underflow of from kitty balance while executing transfer method"
ErrBalanceTooLow == "balance too low to send value"

\* ----------------------------------------------------------- collaborators

\* decl_event!: the four events of the module.
Created(account, hash) == <<"Created", account, hash>>
PriceSet(account, hash, balance) == <<"PriceSet", account, hash, balance>>
Transferred(from, to, hash) == <<"Transferred", from, to, hash>>
Bought(buyer, seller, hash, balance) == <<"Bought", buyer, seller, hash, balance>>

\* Self::deposit_event
deposit_event(S, event) == [S EXCEPT !.events = Append(S.events, event)]

\* system::ensure_signed
ensure_signed(origin) == IF origin \in Accounts THEN Ok ELSE ErrBadOrigin

\* balances::Module::make_transfer: moves value from transactor to dest, or
\* fails without a write when the transactor's free balance is too low.
make_transfer(S, transactor, dest, value) ==
    IF S.FreeBalance[transactor] < value
    THEN Outcome(ErrBalanceTooLow, S)
    ELSE Outcome(Ok,
            [S EXCEPT !.FreeBalance =
                [a \in Accounts |->
                    IF a = transactor /\ a = dest THEN S.FreeBalance[a]
                    ELSE IF a = transactor THEN S.FreeBalance[a] - value
                    ELSE IF a = dest THEN S.FreeBalance[a] + value
                    ELSE S.FreeBalance[a]]])

\* ----------------------------------------------------------------- helpers

\* MintWrites with the put of the new AllKittiesCount (line 285) left out.
MintWrites_NoCountPut(S, to, kitty_id, new_kitty, owned_kitty_count, new_owned_kitty_count, all_kitties_count, new_all_kitties_count) ==
    [S EXCEPT
        !.Kitties = Insert(S.Kitties, kitty_id, new_kitty),
        !.KittyOwner = Insert(S.KittyOwner, kitty_id, to),
        !.AllKittiesArray = Insert(S.AllKittiesArray, all_kitties_count, kitty_id),
        !.AllKittiesIndex = Insert(S.AllKittiesIndex, kitty_id, all_kitties_count),
        !.OwnedKittiesArray = Insert(S.OwnedKittiesArray, <<to, owned_kitty_count>>, kitty_id),
        !.OwnedKittiesCount = Insert(S.OwnedKittiesCount, to, new_owned_kitty_count),
        !.OwnedKittiesIndex = Insert(S.OwnedKittiesIndex, kitty_id, owned_kitty_count)]

\* MintWrites recording the new owned count, not the old one, as the kitty's
\* index in its owner's list (line 295).
MintWrites_IndexOffByOne(S, to, kitty_id, new_kitty, owned_kitty_count, new_owned_kitty_count, all_kitties_count, new_all_kitties_count) ==
    [S EXCEPT
        !.Kitties = Insert(S.Kitties, kitty_id, new_kitty),
        !.KittyOwner = Insert(S.KittyOwner, kitty_id, to),
        !.AllKittiesArray = Insert(S.AllKittiesArray, all_kitties_count, kitty_id),
        !.AllKittiesCount = new_all_kitties_count,
        !.AllKittiesIndex = Insert(S.AllKittiesIndex, kitty_id, all_kitties_count),
        !.OwnedKittiesArray = Insert(S.OwnedKittiesArray, <<to, owned_kitty_count>>, kitty_id),
        !.OwnedKittiesCount = Insert(S.OwnedKittiesCount, to, new_owned_kitty_count),
        !.OwnedKittiesIndex = Insert(S.OwnedKittiesIndex, kitty_id, new_owned_kitty_count)]

\* MintWrites with the insert of the owner's new count (line 290) left out.
MintWrites_NoOwnedCountInsert(S, to, kitty_id, new_kitty, owned_kitty_count, new_owned_kitty_count, all_kitties_count, new_all_kitties_count) ==
    [S EXCEPT
        !.Kitties = Insert(S.Kitties, kitty_id, new_kitty),
        !.KittyOwner = Insert(S.KittyOwner, kitty_id, to),
        !.AllKittiesArray = Insert(S.AllKittiesArray, all_kitties_count, kitty_id),
        !.AllKittiesCount = new_all_kitties_count,
        !.AllKittiesIndex = Insert(S.AllKittiesIndex, kitty_id, all_kitties_count),
        !.OwnedKittiesArray = Insert(S.OwnedKittiesArray, <<to, owned_kitty_count>>, kitty_id),
        !.OwnedKittiesIndex = Insert(S.OwnedKittiesIndex, kitty_id, owned_kitty_count)]

\* The writes of _mint once its checks have passed (lines 276-301).
MintWrites(S, to, kitty_id, new_kitty, owned_kitty_count, new_owned_kitty_count, all_kitties_count, new_all_kitties_count) ==
    [S EXCEPT
        !.Kitties = Insert(S.Kitties, kitty_id, new_kitty),
        !.KittyOwner = Insert(S.KittyOwner, kitty_id, to),
        !.AllKittiesArray = Insert(S.AllKittiesArray, all_kitties_count, kitty_id),
        !.AllKittiesCount = new_all_kitties_count,
        !.AllKittiesIndex = Insert(S.AllKittiesIndex, kitty_id, all_kitties_count),
        !.OwnedKittiesArray = Insert(S.OwnedKittiesArray, <<to, owned_kitty_count>>, kitty_id),
        !.OwnedKittiesCount = Insert(S.OwnedKittiesCount, to, new_owned_kitty_count),
        !.OwnedKittiesIndex = Insert(S.OwnedKittiesIndex, kitty_id, owned_kitty_count)]

\* _mint without the test of line 259 that the id is not taken.
_mint_NoExistsCheck(S, to, kitty_id, new_kitty) ==
    LET owned_kitty_count == Get(S.OwnedKittiesCount, to, 0)
        new_owned_kitty_count == checked_add(owned_kitty_count, 1)
        all_kitties_count == S.AllKittiesCount
        new_all_kitties_count == checked_add(all_kitties_count, 1)
    IN  IF new_owned_kitty_count = None THEN Outcome(ErrMintOverflowOwned, S)
        ELSE IF new_all_kitties_count = None THEN Outcome(ErrMintOverflowAll, S)
        ELSE Outcome(Ok, deposit_event(
                MintWrites(S, to, kitty_id, new_kitty, owned_kitty_count,
                           new_owned_kitty_count, all_kitties_count, new_all_kitties_count),
                Created(to, kitty_id)))

\* fn _mint(to, kitty_id, new_kitty) -> Result
_mint(S, to, kitty_id, new_kitty) ==
    IF Exists(S.KittyOwner, kitty_id) THEN Outcome(ErrIdExists, S)
    ELSE
    LET owned_kitty_count == Get(S.OwnedKittiesCount, to, 0)
        new_owned_kitty_count == checked_add(owned_kitty_count, 1)
        all_kitties_count == S.AllKittiesCount
        new_all_kitties_count == checked_add(all_kitties_count, 1)
    IN  IF new_owned_kitty_count = None THEN Outcome(ErrMintOverflowOwned, S)
        ELSE IF new_all_kitties_count = None THEN Outcome(ErrMintOverflowAll, S)
        ELSE Outcome(Ok, deposit_event(
                MintWrites(S, to, kitty_id, new_kitty, owned_kitty_count,
                           new_owned_kitty_count, all_kitties_count, new_all_kitties_count),
                Created(to, kitty_id)))

\* SwapLast with the update of the moved kitty's reverse index (line 342) left out.
SwapLast_NoIndexUpdate(S, from, kitty_index, new_owned_kitty_count_from) ==
    IF kitty_index # new_owned_kitty_count_from
    THEN LET last_kitty_id ==
                Get(S.OwnedKittiesArray, <<from, new_owned_kitty_count_from>>, ZeroHash)
         IN  [S EXCEPT
                !.OwnedKittiesArray = Insert(S.OwnedKittiesArray, <<from, kitty_index>>, last_kitty_id)]
    ELSE S

\* The swap of swap-and-pop (lines 336-343): the sender's last kitty takes the
\* slot of the kitty that leaves, unless the leaving kitty is the last one.
SwapLast(S, from, kitty_index, new_owned_kitty_count_from) ==
    IF kitty_index # new_owned_kitty_count_from
    THEN LET last_kitty_id ==
                Get(S.OwnedKittiesArray, <<from, new_owned_kitty_count_from>>, ZeroHash)
         IN  [S EXCEPT
                !.OwnedKittiesArray = Insert(S.OwnedKittiesArray, <<from, kitty_index>>, last_kitty_id),
                !.OwnedKittiesIndex = Insert(S.OwnedKittiesIndex, last_kitty_id, kitty_index)]
    ELSE S

\* TransferWrites with the removal of the sender's last slot (line 352) left out.
TransferWrites_NoRemove(S, from, to, kitty_id, owned_kitty_count_to, new_owned_kitty_count_from, new_owned_kitty_count_to) ==
    LET S1 == [S EXCEPT !.KittyOwner = Insert(S.KittyOwner, kitty_id, to)]
        S2 == [S1 EXCEPT !.OwnedKittiesIndex =
                    Insert(S1.OwnedKittiesIndex, kitty_id, owned_kitty_count_to)]
        S4 == [S2 EXCEPT !.OwnedKittiesArray =
                    Insert(S2.OwnedKittiesArray, <<to, owned_kitty_count_to>>, kitty_id)]
        S5 == [S4 EXCEPT !.OwnedKittiesCount =
                    Insert(S4.OwnedKittiesCount, from, new_owned_kitty_count_from)]
        S6 == [S5 EXCEPT !.OwnedKittiesCount =
                    Insert(S5.OwnedKittiesCount, to, new_owned_kitty_count_to)]
    IN  S6

\* The writes of _transfer_from after the swap (lines 346-360), in program order.
TransferWrites(S, from, to, kitty_id, owned_kitty_count_to, new_owned_kitty_count_from, new_owned_kitty_count_to) ==
    LET S1 == [S EXCEPT !.KittyOwner = Insert(S.KittyOwner, kitty_id, to)]
        S2 == [S1 EXCEPT !.OwnedKittiesIndex =
                    Insert(S1.OwnedKittiesIndex, kitty_id, owned_kitty_count_to)]
        S3 == [S2 EXCEPT !.OwnedKittiesArray =
                    Remove(S2.OwnedKittiesArray, <<from, new_owned_kitty_count_from>>)]
        S4 == [S3 EXCEPT !.OwnedKittiesArray =
                    Insert(S3.OwnedKittiesArray, <<to, owned_kitty_count_to>>, kitty_id)]
        S5 == [S4 EXCEPT !.OwnedKittiesCount =
                    Insert(S4.OwnedKittiesCount, from, new_owned_kitty_count_from)]
        S6 == [S5 EXCEPT !.OwnedKittiesCount =
                    Insert(S5.OwnedKittiesCount, to, new_owned_kitty_count_to)]
    IN  S6

\* fn _transfer_from(from, to, kitty_id) -> Result
_transfer_from(S, from, to, kitty_id) ==
    IF ~Exists(S.KittyOwner, kitty_id) THEN Outcome(ErrNoOwner, S)
    ELSE IF S.KittyOwner[kitty_id] # from THEN Outcome(ErrFromNotOwner, S)
    ELSE
    LET owned_kitty_count_from == Get(S.OwnedKittiesCount, from, 0)
        owned_kitty_count_to == Get(S.OwnedKittiesCount, to, 0)
        new_owned_kitty_count_to == checked_add(owned_kitty_count_to, 1)
        new_owned_kitty_count_from == checked_sub(owned_kitty_count_from, 1)
        kitty_index == Get(S.OwnedKittiesIndex, kitty_id, 0)
    IN  IF new_owned_kitty_count_to = None THEN Outcome(ErrTransferOverflow, S)
        ELSE IF new_owned_kitty_count_from = None THEN Outcome(ErrTransferUnderflow, S)
        ELSE Outcome(Ok, deposit_event(
                TransferWrites(SwapLast(S, from, kitty_index, new_owned_kitty_count_from),
                               from, to, kitty_id, owned_kitty_count_to,
                               new_owned_kitty_count_from, new_owned_kitty_count_to),
                Transferred(from, to, kitty_id)))

\* ------------------------------------------------------------ dispatchables

\* create_kitty without the increment of the Nonce (lines 118-120).
create_kitty_KeepsNonce(S, origin, random_hash) ==
    IF ensure_signed(origin) # Ok THEN Outcome(ErrBadOrigin, S)
    ELSE IF Exists(S.KittyOwner, random_hash) THEN Outcome(ErrIdExists, S)
    ELSE
    LET sender == origin
        new_kitty == [id |-> random_hash, dna |-> random_hash, price |-> 0, gen |-> 0]
    IN  _mint(S, sender, random_hash, new_kitty)

\* create_kitty making the new kitty with a price of 1, not 0 (line 110).
create_kitty_ForSale(S, origin, random_hash) ==
    IF ensure_signed(origin) # Ok THEN Outcome(ErrBadOrigin, S)
    ELSE IF Exists(S.KittyOwner, random_hash) THEN Outcome(ErrIdExists, S)
    ELSE
    LET sender == origin
        new_kitty == [id |-> random_hash, dna |-> random_hash, price |-> 1, gen |-> 0]
        minted == _mint(S, sender, random_hash, new_kitty)
    IN  IF minted.result # Ok THEN minted
        ELSE Outcome(Ok, [minted.S EXCEPT !.Nonce = (minted.S.Nonce + 1) % (U64Max + 1)])

\* fn create_kitty(origin) -> Result; random_hash is the hash of
\* (random_seed, sender, nonce), an input the environment chooses.
create_kitty(S, origin, random_hash) ==
    IF ensure_signed(origin) # Ok THEN Outcome(ErrBadOrigin, S)
    ELSE IF Exists(S.KittyOwner, random_hash) THEN Outcome(ErrIdExists, S)
    ELSE
    LET sender == origin
        new_kitty == [id |-> random_hash, dna |-> random_hash, price |-> 0, gen |-> 0]
        minted == _mint(S, sender, random_hash, new_kitty)
    IN  IF minted.result # Ok THEN minted
        ELSE Outcome(Ok, [minted.S EXCEPT !.Nonce = (minted.S.Nonce + 1) % (U64Max + 1)])

\* set_price writing the price before it checks the owner.
set_price_WriteBeforeCheck(S, origin, kitty_id, new_price) ==
    IF ensure_signed(origin) # Ok THEN Outcome(ErrBadOrigin, S)
    ELSE IF ~Exists(S.Kitties, kitty_id) THEN Outcome(ErrNoKitty, S)
    ELSE
    LET kitty == Get(S.Kitties, kitty_id, DefaultKitty)
        written == [S EXCEPT !.Kitties =
                        Insert(S.Kitties, kitty_id, [kitty EXCEPT !.price = new_price])]
    IN  IF ~Exists(S.KittyOwner, kitty_id) THEN Outcome(ErrNoOwner, written)
        ELSE IF S.KittyOwner[kitty_id] # origin THEN Outcome(ErrNotOwner, written)
        ELSE Outcome(Ok, deposit_event(written, PriceSet(origin, kitty_id, new_price)))

\* set_price without the owner test of lines 135-136.
set_price_NoOwnerCheck(S, origin, kitty_id, new_price) ==
    IF ensure_signed(origin) # Ok THEN Outcome(ErrBadOrigin, S)
    ELSE IF ~Exists(S.Kitties, kitty_id) THEN Outcome(ErrNoKitty, S)
    ELSE
    LET kitty == Get(S.Kitties, kitty_id, DefaultKitty)
    IN  Outcome(Ok, deposit_event(
            [S EXCEPT !.Kitties =
                Insert(S.Kitties, kitty_id, [kitty EXCEPT !.price = new_price])],
            PriceSet(origin, kitty_id, new_price)))

\* fn set_price(origin, kitty_id, new_price) -> Result
set_price(S, origin, kitty_id, new_price) ==
    IF ensure_signed(origin) # Ok THEN Outcome(ErrBadOrigin, S)
    ELSE IF ~Exists(S.Kitties, kitty_id) THEN Outcome(ErrNoKitty, S)
    ELSE IF ~Exists(S.KittyOwner, kitty_id) THEN Outcome(ErrNoOwner, S)
    ELSE IF S.KittyOwner[kitty_id] # origin THEN Outcome(ErrNotOwner, S)
    ELSE
    LET kitty == Get(S.Kitties, kitty_id, DefaultKitty)
    IN  Outcome(Ok, deposit_event(
            [S EXCEPT !.Kitties =
                Insert(S.Kitties, kitty_id, [kitty EXCEPT !.price = new_price])],
            PriceSet(origin, kitty_id, new_price)))

\* fn transfer(origin, to, kitty_id) -> Result
transfer(S, origin, to, kitty_id) ==
    IF ensure_signed(origin) # Ok THEN Outcome(ErrBadOrigin, S)
    ELSE IF ~Exists(S.KittyOwner, kitty_id) THEN Outcome(ErrNoOwner, S)
    ELSE IF S.KittyOwner[kitty_id] # origin THEN Outcome(ErrNotOwner, S)
    ELSE _transfer_from(S, origin, to, kitty_id)

\* SoldKitty without the reset of the price (line 195).
SoldKitty_KeepsPrice(kitty) == kitty

\* The kitty buy_kitty writes back after the sale (lines 195-197): the record
\* it read before the payment, with the price reset.
SoldKitty(kitty) == [kitty EXCEPT !.price = 0]

\* buy_kitty without the not-for-sale test of line 184.
buy_kitty_NoSaleCheck(S, origin, kitty_id, max_price) ==
    IF ensure_signed(origin) # Ok THEN Outcome(ErrBadOrigin, S)
    ELSE IF ~Exists(S.Kitties, kitty_id) THEN Outcome(ErrNoKitty, S)
    ELSE IF ~Exists(S.KittyOwner, kitty_id) THEN Outcome(ErrNoOwner, S)
    ELSE IF S.KittyOwner[kitty_id] = origin THEN Outcome(ErrOwnKitty, S)
    ELSE
    LET sender == origin
        owner == S.KittyOwner[kitty_id]
        kitty == Get(S.Kitties, kitty_id, DefaultKitty)
        kitty_price == kitty.price
    IN  IF ~(kitty_price <= max_price) THEN Outcome(ErrTooExpensive, S)
        ELSE
        LET paid == make_transfer(S, sender, owner, kitty_price)
        IN  IF paid.result # Ok THEN paid
            ELSE
            LET moved == _transfer_from(paid.S, owner, sender, kitty_id)
            IN  IF moved.result # Ok THEN moved
                ELSE Outcome(Ok, deposit_event(
                        [moved.S EXCEPT !.Kitties =
                            Insert(moved.S.Kitties, kitty_id, SoldKitty(kitty))],
                        Bought(sender, owner, kitty_id, kitty_price)))

\* buy_kitty without the price <= max_price test of line 187.
buy_kitty_NoMaxPriceCheck(S, origin, kitty_id, max_price) ==
    IF ensure_signed(origin) # Ok THEN Outcome(ErrBadOrigin, S)
    ELSE IF ~Exists(S.Kitties, kitty_id) THEN Outcome(ErrNoKitty, S)
    ELSE IF ~Exists(S.KittyOwner, kitty_id) THEN Outcome(ErrNoOwner, S)
    ELSE IF S.KittyOwner[kitty_id] = origin THEN Outcome(ErrOwnKitty, S)
    ELSE
    LET sender == origin
        owner == S.KittyOwner[kitty_id]
        kitty == Get(S.Kitties, kitty_id, DefaultKitty)
        kitty_price == kitty.price
    IN  IF kitty_price = 0 THEN Outcome(ErrNotForSale, S)
        ELSE
        LET paid == make_transfer(S, sender, owner, kitty_price)
        IN  IF paid.result # Ok THEN paid
            ELSE
            LET moved == _transfer_from(paid.S, owner, sender, kitty_id)
            IN  IF moved.result # Ok THEN moved
                ELSE Outcome(Ok, deposit_event(
                        [moved.S EXCEPT !.Kitties =
                            Insert(moved.S.Kitties, kitty_id, SoldKitty(kitty))],
                        Bought(sender, owner, kitty_id, kitty_price)))

\* fn buy_kitty(origin, kitty_id, max_price) -> Result
buy_kitty(S, origin, kitty_id, max_price) ==
    IF ensure_signed(origin) # Ok THEN Outcome(ErrBadOrigin, S)
    ELSE IF ~Exists(S.Kitties, kitty_id) THEN Outcome(ErrNoKitty, S)
    ELSE IF ~Exists(S.KittyOwner, kitty_id) THEN Outcome(ErrNoOwner, S)
    ELSE IF S.KittyOwner[kitty_id] = origin THEN Outcome(ErrOwnKitty, S)
    ELSE
    LET sender == origin
        owner == S.KittyOwner[kitty_id]
        kitty == Get(S.Kitties, kitty_id, DefaultKitty)
        kitty_price == kitty.price
    IN  IF kitty_price = 0 THEN Outcome(ErrNotForSale, S)
        ELSE IF ~(kitty_price <= max_price) THEN Outcome(ErrTooExpensive, S)
        ELSE
        LET paid == make_transfer(S, sender, owner, kitty_price)
        IN  IF paid.result # Ok THEN paid
            ELSE
            LET moved == _transfer_from(paid.S, owner, sender, kitty_id)
            IN  IF moved.result # Ok THEN moved
                ELSE Outcome(Ok, deposit_event(
                        [moved.S EXCEPT !.Kitties =
                            Insert(moved.S.Kitties, kitty_id, SoldKitty(kitty))],
                        Bought(sender, owner, kitty_id, kitty_price)))

\* final_dna taking the second parent's byte where the byte of random_hash is
\* odd, not even.
final_dna_OddTakesSecond(dna_1, dna_2, random_hash) ==
    [i \in HashBytes |-> IF random_hash[i] % 2 = 1 THEN dna_2[i] ELSE dna_1[i]]

\* The DNA shaking of breed_kitty (lines 225-232): the child starts from the
\* first parent's dna and takes the second parent's byte wherever the byte of
\* random_hash at that position is even.
final_dna(dna_1, dna_2, random_hash) ==
    [i \in HashBytes |-> IF random_hash[i] % 2 = 0 THEN dna_2[i] ELSE dna_1[i]]

\* breed_kitty taking the child's gen from the first parent alone, without the
\* cmp::max of line 239.
breed_kitty_GenOfFirst(S, origin, kitty_id_1, kitty_id_2, random_hash) ==
    IF ensure_signed(origin) # Ok THEN Outcome(ErrBadOrigin, S)
    ELSE IF ~Exists(S.Kitties, kitty_id_1) THEN Outcome(ErrNoCat1, S)
    ELSE IF ~Exists(S.Kitties, kitty_id_2) THEN Outcome(ErrNoCat2, S)
    ELSE
    LET sender == origin
        kitty_1 == Get(S.Kitties, kitty_id_1, DefaultKitty)
        kitty_2 == Get(S.Kitties, kitty_id_2, DefaultKitty)
        new_kitty == [id |-> random_hash,
                      dna |-> final_dna(kitty_1.dna, kitty_2.dna, random_hash),
                      price |-> 0,
                      gen |-> kitty_1.gen + 1]
        minted == _mint(S, sender, random_hash, new_kitty)
    IN  IF minted.result # Ok THEN minted
        ELSE Outcome(Ok, [minted.S EXCEPT !.Nonce = (minted.S.Nonce + 1) % (U64Max + 1)])

\* fn breed_kitty(origin, kitty_id_1, kitty_id_2) -> Result
breed_kitty(S, origin, kitty_id_1, kitty_id_2, random_hash) ==
    IF ensure_signed(origin) # Ok THEN Outcome(ErrBadOrigin, S)
    ELSE IF ~Exists(S.Kitties, kitty_id_1) THEN Outcome(ErrNoCat1, S)
    ELSE IF ~Exists(S.Kitties, kitty_id_2) THEN Outcome(ErrNoCat2, S)
    ELSE
    LET sender == origin
        kitty_1 == Get(S.Kitties, kitty_id_1, DefaultKitty)
        kitty_2 == Get(S.Kitties, kitty_id_2, DefaultKitty)
        new_kitty == [id |-> random_hash,
                      dna |-> final_dna(kitty_1.dna, kitty_2.dna, random_hash),
                      price |-> 0,
                      gen |-> max(kitty_1.gen, kitty_2.gen) + 1]
        minted == _mint(S, sender, random_hash, new_kitty)
    IN  IF minted.result # Ok THEN minted
        ELSE Outcome(Ok, [minted.S EXCEPT !.Nonce = (minted.S.Nonce + 1) % (U64Max + 1)])

\* ------------------------------------------------------------------ actions

\* (random_seed, sender, nonce).using_encoded(Hashing::hash): the seed is the
\* environment's, so the hash is an input of the call.  Hash values are
\* interchangeable, so a hash that collides with no kitty is named canonically
\* (the output HashSequence gives for the nonce); a hash that collides with an
\* existing kitty may be any existing id.
random_hashes ==
    {HashSequence[(Nonce % Len(HashSequence)) + 1]} \cup DOMAIN KittyOwner

\* The storage after the call is what the call left, whether it returned Ok or
\* Err; last records the function called, its Result and the events it deposited.
Commit(op, out) ==
    /\ Kitties' = out.S.Kitties
    /\ KittyOwner' = out.S.KittyOwner
    /\ AllKittiesArray' = out.S.AllKittiesArray
    /\ AllKittiesCount' = out.S.AllKittiesCount
    /\ AllKittiesIndex' = out.S.AllKittiesIndex
    /\ OwnedKittiesArray' = out.S.OwnedKittiesArray
    /\ OwnedKittiesCount' = out.S.OwnedKittiesCount
    /\ OwnedKittiesIndex' = out.S.OwnedKittiesIndex
    /\ Nonce' = out.S.Nonce
    /\ FreeBalance' = out.S.FreeBalance
    /\ last' = [op |-> op, result |-> out.result, events |-> out.S.events]

Init ==
    /\ Kitties = EmptyMap
    /\ KittyOwner = EmptyMap
    /\ AllKittiesArray = EmptyMap
    /\ AllKittiesCount = 0
    /\ AllKittiesIndex = EmptyMap
    /\ OwnedKittiesArray = EmptyMap
    /\ OwnedKittiesCount = EmptyMap
    /\ OwnedKittiesIndex = EmptyMap
    /\ Nonce = 0
    /\ FreeBalance = [a \in Accounts |-> InitBalance]
    /\ last = [op |-> "genesis", result |-> Ok, events |-> <<>>]

CreateKitty ==
    \E origin \in Origins, random_hash \in random_hashes :
        Commit("create_kitty",
               create_kitty(Store, origin, random_hash))

SetPrice ==
    \E origin \in Origins, kitty_id \in KittyIds, new_price \in Prices :
        Commit("set_price",
               set_price(Store, origin, kitty_id, new_price))

Transfer ==
    \E origin \in Origins, to \in Accounts, kitty_id \in KittyIds :
        Commit("transfer",
               transfer(Store, origin, to, kitty_id))

BuyKitty ==
    \E origin \in Origins, kitty_id \in KittyIds, max_price \in Prices :
        Commit("buy_kitty",
               buy_kitty(Store, origin, kitty_id, max_price))

BreedKitty ==
    \E origin \in Origins, kitty_id_1 \in KittyIds, kitty_id_2 \in KittyIds,
       random_hash \in random_hashes :
        Commit("breed_kitty",
               breed_kitty(Store, origin, kitty_id_1, kitty_id_2, random_hash))

Next == CreateKitty \/ SetPrice \/ Transfer \/ BuyKitty \/ BreedKitty

Spec == Init /\ [][Next]_vars

\* ------------------------------------------------- the minting calls alone

\* Every value of the two-byte hash with bytes 1 (odd) and 2 (even): what the
\* hashing of (random_seed, sender, nonce) may return when the seed is free.
BreedHashes == {<<b1, b2>> : b1 \in {1, 2}, b2 \in {1, 2}}

\* The parent ids a caller of breed_kitty passes: any hash, or one that is no
\* kitty's id.
BreedIds == BreedHashes \cup {ZeroHash}

\* create_kitty with any hash value as the outcome of the hashing.
CreateKittyAnyHash ==
    \E origin \in Origins, random_hash \in BreedHashes :
        Commit("create_kitty",
               create_kitty(Store, origin, random_hash))

\* breed_kitty with any parents and any hash value as the outcome of the hashing.
BreedKittyAnyHash ==
    \E origin \in Origins, kitty_id_1 \in BreedIds, kitty_id_2 \in BreedIds,
       random_hash \in BreedHashes :
        Commit("breed_kitty",
               breed_kitty(Store, origin, kitty_id_1, kitty_id_2, random_hash))

NextBreed == CreateKittyAnyHash \/ BreedKittyAnyHash

\* The module driven by create_kitty and breed_kitty only, the hash unrestricted:
\* kitties of different dna and of generations 0, 1 and 2 come to exist, so that
\* breed_kitty is applied to parents that differ in both.
SpecBreed == Init /\ [][NextBreed]_vars

\* ------------------------------------------------------------- properties

\* The kitties account a owns according to KittyOwner.
KittiesOf(a) == {t \in DOMAIN KittyOwner : KittyOwner[t] = a}

\* Self::owned_kitty_count
OwnedCount(a) == Get(OwnedKittiesCount, a, 0)

\* The keys of OwnedKittiesArray that hold kitty t.
SlotsOf(t) == {k \in DOMAIN OwnedKittiesArray : OwnedKittiesArray[k] = t}

\* C1: for every account a, OwnedKittiesCount[a] is the number of kitties t
\* with KittyOwner[t] = a.
C1_CountIsNumberOwned ==
    \A a \in Accounts : OwnedCount(a) = Cardinality(KittiesOf(a))

\* C2: the per-owner list is dense: every index below OwnedKittiesCount[a] has
\* an entry, and the entry is a minted kitty that a owns.
C2_OwnedListDense ==
    \A a \in Accounts : \A i \in 0..(OwnedCount(a) - 1) :
        /\ <<a, i>> \in DOMAIN OwnedKittiesArray
        /\ OwnedKittiesArray[<<a, i>>] \in DOMAIN Kitties
        /\ OwnedKittiesArray[<<a, i>>] \in KittiesOf(a)

\* C3: every minted kitty has an owner and sits in exactly one slot of
\* OwnedKittiesArray, a slot of its owner.
C3_ExactlyOneSlot ==
    \A t \in DOMAIN Kitties :
        /\ t \in DOMAIN KittyOwner
        /\ Cardinality(SlotsOf(t)) = 1
        /\ \A k \in SlotsOf(t) : k[1] = KittyOwner[t]

\* C4: the reverse index of a kitty points at the kitty's own slot, inside its
\* owner's range.
C4_IndexPointsAtSlot ==
    \A t \in DOMAIN KittyOwner :
        LET a == KittyOwner[t]
            i == Get(OwnedKittiesIndex, t, 0)
        IN  /\ t \in DOMAIN OwnedKittiesIndex
            /\ <<a, i>> \in DOMAIN OwnedKittiesArray
            /\ OwnedKittiesArray[<<a, i>>] = t
            /\ i < OwnedCount(a)

\* A kitty exists, its owner has another account to send it to, and transfers
\* or purchases between accounts have happened with both kitties minted.
C3_Witness ==
    /\ last.op \in {"transfer", "buy_kitty"}
    /\ last.result = Ok
    /\ \E a \in Accounts, b \in Accounts, t \in DOMAIN Kitties :
            /\ a # b
            /\ last.events[1] = Transferred(a, b, t)
            /\ KittyOwner[t] = b
            /\ Cardinality(KittiesOf(b)) = 2

\* The swap of swap-and-pop has read an empty last slot (the default hash now
\* sits in a slot) while kitties are owned.
C4_Witness ==
    /\ \E k \in DOMAIN OwnedKittiesArray : OwnedKittiesArray[k] = ZeroHash
    /\ \E a \in Accounts : Cardinality(KittiesOf(a)) = 2

\* C5: for every account a and kitty t of a, transfer(a, a, t) succeeds and
\* leaves KittyOwner[t] = a and OwnedKittiesCount[a] as before the call.
C5_SelfTransferKeepsCount ==
    \A a \in Accounts : \A t \in KittiesOf(a) :
        LET out == transfer(Store, a, a, t)
        IN  /\ out.result = Ok
            /\ out.S.KittyOwner[t] = a
            /\ Get(out.S.OwnedKittiesCount, a, 0) = OwnedCount(a)

\* C6: a call that returns an error leaves every storage item of the module
\* (Kitties, KittyOwner, the three AllKitties items, the three OwnedKitties
\* items, Nonce) as it was before the call.
C6_ErrorLeavesStorage ==
    [][last'.result # Ok => UNCHANGED storage]_vars

\* buy_kitty has failed because the ledger refused the payment.
C6_Witness ==
    /\ last.op = "buy_kitty"
    /\ last.result = ErrBalanceTooLow
    /\ \E t \in DOMAIN Kitties : Kitties[t].price > 0

\* C7: if buy_kitty returns an error, no funds have moved.
C7_FailedBuyMovesNoFunds ==
    [][(last'.op = "buy_kitty" /\ last'.result # Ok) => UNCHANGED FreeBalance]_vars

\* C8: a successful buy_kitty(caller, t, max_price) on a kitty of owner o with
\* price p moves exactly p from caller to o, makes caller the owner, resets the
\* price to 0, takes one from o's count and adds one to caller's, and leaves
\* the kitty's id, dna and gen alone.
C8_SuccessfulBuy ==
    \A caller \in Accounts, t \in KittyIds, max_price \in Prices :
        LET out == buy_kitty(Store, caller, t, max_price)
            o == KittyOwner[t]
            p == Kitties[t].price
        IN  out.result = Ok =>
                /\ o # caller
                /\ out.S.FreeBalance[caller] = FreeBalance[caller] - p
                /\ out.S.FreeBalance[o] = FreeBalance[o] + p
                /\ \A x \in Accounts \ {caller, o} : out.S.FreeBalance[x] = FreeBalance[x]
                /\ out.S.KittyOwner[t] = caller
                /\ out.S.Kitties[t].price = 0
                /\ Get(out.S.OwnedKittiesCount, o, 0) = OwnedCount(o) - 1
                /\ Get(out.S.OwnedKittiesCount, caller, 0) = OwnedCount(caller) + 1
                /\ out.S.Kitties[t].id = Kitties[t].id
                /\ out.S.Kitties[t].dna = Kitties[t].dna
                /\ out.S.Kitties[t].gen = Kitties[t].gen

\* A purchase has just succeeded: the buyer owns the kitty and has paid.
C8_Witness ==
    /\ last.op = "buy_kitty"
    /\ last.result = Ok
    /\ \E caller \in Accounts, o \in Accounts, t \in DOMAIN Kitties :
            /\ last.events[2] = Bought(caller, o, t, 1)
            /\ KittyOwner[t] = caller
            /\ FreeBalance[o] = InitBalance + 1

\* C9: AllKittiesCount is the number of keys of KittyOwner; a successful
\* create_kitty or breed_kitty adds exactly one, and no other call, and no
\* failed call, changes it.
C9_AllKittiesCount ==
    [][/\ AllKittiesCount = Cardinality(DOMAIN KittyOwner)
       /\ AllKittiesCount' = Cardinality(DOMAIN KittyOwner')
       /\ IF last'.op \in {"create_kitty", "breed_kitty"} /\ last'.result = Ok
          THEN AllKittiesCount' = AllKittiesCount + 1
          ELSE AllKittiesCount' = AllKittiesCount]_vars

\* A kitty has just been bred as the second kitty.
C9_Witness ==
    /\ last.op = "breed_kitty"
    /\ last.result = Ok
    /\ AllKittiesCount = 2

\* C10: for distinct accounts a and b and a kitty t of a, transfer(a, b, t)
\* followed immediately by transfer(b, a, t) both succeed and restore
\* KittyOwner[t] = a and both counts, with Kitties[t] unchanged throughout.
C10_RoundTrip ==
    \A a \in Accounts, b \in Accounts : \A t \in KittiesOf(a) :
        a # b =>
            LET there == transfer(Store, a, b, t)
                back == transfer(there.S, b, a, t)
            IN  /\ there.result = Ok
                /\ back.result = Ok
                /\ back.S.KittyOwner[t] = a
                /\ Get(back.S.OwnedKittiesCount, a, 0) = OwnedCount(a)
                /\ Get(back.S.OwnedKittiesCount, b, 0) = OwnedCount(b)
                /\ there.S.Kitties[t] = Kitties[t]
                /\ back.S.Kitties[t] = Kitties[t]

\* C11: buy_kitty on an existing kitty whose price is 0 fails for every origin
\* and every max_price and leaves the ledger and every storage item as they
\* were; a signed caller who is not the owner gets the not-for-sale error (the
\* owner is turned away one test earlier, line 176).
C11_NotForSaleFails ==
    \A origin \in Origins, t \in DOMAIN Kitties, max_price \in Prices :
        Kitties[t].price = 0 =>
            LET out == buy_kitty(Store, origin, t, max_price)
            IN  /\ out.result # Ok
                /\ out.S = Store
                /\ (origin \in Accounts /\ KittyOwner[t] # origin)
                        => out.result = ErrNotForSale

\* A purchase of a kitty that is not for sale has just been refused, by a
\* caller who could have paid any price in Prices.
C11_Witness ==
    /\ last.op = "buy_kitty"
    /\ last.result = ErrNotForSale
    /\ \E t \in DOMAIN Kitties, caller \in Accounts :
            /\ Kitties[t].price = 0
            /\ KittyOwner[t] # caller
            /\ FreeBalance[caller] >= MaxPrice

\* C12: set_price(caller, t, p) returns Ok only when t exists and caller is its
\* owner; a successful call changes the price field of Kitties[t] to p and
\* nothing else (id, dna, gen, every other kitty, KittyOwner, the lists, the
\* indexes, the counts, the Nonce and the ledger stay); a call by anyone who
\* is not the owner of t fails and changes nothing.
C12_SetPriceFrame ==
    \A origin \in Origins, t \in KittyIds, p \in Prices :
        LET out == set_price(Store, origin, t, p)
            owns == t \in DOMAIN KittyOwner /\ KittyOwner[t] = origin
        IN  /\ out.result = Ok =>
                /\ t \in DOMAIN Kitties
                /\ owns
                /\ out.S.Kitties = [Kitties EXCEPT ![t].price = p]
                /\ [out.S EXCEPT !.Kitties = Kitties, !.events = <<>>] = Store
                /\ out.S.events = <<PriceSet(origin, t, p)>>
            /\ ~owns => (out.result # Ok /\ out.S = Store)

\* The owner of a kitty has just put it up for sale, while the other account
\* owns a kitty too.
C12_Witness ==
    /\ last.op = "set_price"
    /\ last.result = Ok
    /\ \E o \in Accounts, t \in DOMAIN Kitties :
            /\ last.events = <<PriceSet(o, t, 1)>>
            /\ KittyOwner[t] = o
            /\ Kitties[t].price = 1
            /\ \E u \in DOMAIN Kitties : KittyOwner[u] # o

\* C13: a kitty is never deleted and its id, dna and gen are write-once: in
\* every step, every kitty that exists still exists afterwards with the same
\* id, dna and gen, whichever call is made (a breed with it as a parent and a
\* creation with a colliding id included); its id field is its key.
C13_KittyImmutable ==
    [][\A t \in DOMAIN Kitties :
            /\ t \in DOMAIN Kitties'
            /\ Kitties'[t].id = Kitties[t].id
            /\ Kitties'[t].dna = Kitties[t].dna
            /\ Kitties'[t].gen = Kitties[t].gen
            /\ Kitties[t].id = t]_vars

\* A mint with the id of an existing kitty has just been refused, after that
\* kitty was bred from (it has a child) and while it is up for sale.
C13_Witness ==
    /\ last.op \in {"create_kitty", "breed_kitty"}
    /\ last.result = ErrIdExists
    /\ \E t \in DOMAIN Kitties, u \in DOMAIN Kitties :
            /\ Kitties[t].gen = 0
            /\ Kitties[t].price > 0
            /\ Kitties[u].gen = 1

\* C14: a successful create_kitty by caller c with hash h happens only for a
\* fresh h and yields Kitties[h] with id = dna = h, price 0 and gen 0, owned by
\* c, stored at AllKittiesArray[old AllKittiesCount] and at
\* OwnedKittiesArray[(c, old OwnedKittiesCount[c])], with OwnedKittiesIndex[h]
\* that old count; both counts grow by one and no other account's list or
\* count changes.
C14_CreateKitty ==
    \A c \in Accounts, h \in HashOutputs :
        LET out == create_kitty(Store, c, h)
            slots == DOMAIN OwnedKittiesArray \cup DOMAIN out.S.OwnedKittiesArray
        IN  out.result = Ok =>
                /\ h \notin DOMAIN Kitties
                /\ h \notin DOMAIN KittyOwner
                /\ out.S.Kitties[h] = [id |-> h, dna |-> h, price |-> 0, gen |-> 0]
                /\ out.S.KittyOwner[h] = c
                /\ AllKittiesCount \in DOMAIN out.S.AllKittiesArray
                /\ out.S.AllKittiesArray[AllKittiesCount] = h
                /\ <<c, OwnedCount(c)>> \in DOMAIN out.S.OwnedKittiesArray
                /\ out.S.OwnedKittiesArray[<<c, OwnedCount(c)>>] = h
                /\ out.S.OwnedKittiesIndex[h] = OwnedCount(c)
                /\ out.S.AllKittiesCount = AllKittiesCount + 1
                /\ Get(out.S.OwnedKittiesCount, c, 0) = OwnedCount(c) + 1
                /\ \A x \in Accounts \ {c} :
                        Get(out.S.OwnedKittiesCount, x, 0) = OwnedCount(x)
                /\ \A k \in slots :
                        k[1] # c =>
                            /\ k \in DOMAIN OwnedKittiesArray
                            /\ k \in DOMAIN out.S.OwnedKittiesArray
                            /\ out.S.OwnedKittiesArray[k] = OwnedKittiesArray[k]

\* An account that already owned a kitty has just created another one, which
\* sits at index 1 of its list; the other account owns a kitty as well.
C14_Witness ==
    /\ last.op = "create_kitty"
    /\ last.result = Ok
    /\ \E c \in Accounts, h \in DOMAIN Kitties :
            /\ last.events = <<Created(c, h)>>
            /\ Kitties[h].gen = 0
            /\ OwnedKittiesIndex[h] = 1
            /\ OwnedKittiesArray[<<c, 1>>] = h
            /\ \E x \in Accounts \ {c} : OwnedCount(x) >= 1

\* C16: the Nonce grows by exactly one in every step that is a successful
\* create_kitty or breed_kitty and stays as it was in every other step
\* (set_price, transfer, buy_kitty, any failed call); it never wraps, so it is
\* strictly larger at each successful mint than at every earlier one and no two
\* of them hash the same nonce value.
C16_NonceSteps ==
    [][IF last'.op \in {"create_kitty", "breed_kitty"} /\ last'.result = Ok
       THEN Nonce' = Nonce + 1
       ELSE Nonce' = Nonce]_vars

\* The second successful mint has just happened, a breed after a creation, with
\* a sale in between that left the Nonce alone: the Nonce is 2.
C16_Witness ==
    /\ last.op = "breed_kitty"
    /\ last.result = Ok
    /\ Nonce = 2
    /\ \E a \in Accounts : FreeBalance[a] # InitBalance

\* The storage record out leaves gives existing kitty t a new owner.
OwnerChanged(out, t) == out.S.KittyOwner[t] # KittyOwner[t]

\* C18: whichever call is made in a reachable state, the owner of an existing
\* kitty t changes from a to b only if the call is transfer(b, t) made by a
\* and returning Ok, or buy_kitty(t, max_price) made by b and returning Ok
\* while 0 < price(t) <= max_price, the ledger moving exactly price(t) from b
\* to a; create_kitty, set_price, breed_kitty and every failed call leave the
\* owner of every existing kitty as it was.
C18_OwnerChange ==
    \A t \in DOMAIN KittyOwner, origin \in Origins :
        LET a == KittyOwner[t]
        IN  /\ \A random_hash \in HashOutputs :
                    ~OwnerChanged(create_kitty(Store, origin, random_hash), t)
            /\ \A kitty_id \in KittyIds, new_price \in Prices :
                    ~OwnerChanged(set_price(Store, origin, kitty_id, new_price), t)
            /\ \A kitty_id_1 \in KittyIds, kitty_id_2 \in KittyIds, random_hash \in HashOutputs :
                    ~OwnerChanged(breed_kitty(Store, origin, kitty_id_1, kitty_id_2, random_hash), t)
            /\ \A to \in Accounts, kitty_id \in KittyIds :
                    LET out == transfer(Store, origin, to, kitty_id)
                    IN  OwnerChanged(out, t) =>
                            /\ out.result = Ok
                            /\ origin = a
                            /\ kitty_id = t
                            /\ out.S.KittyOwner[t] = to
                            /\ out.S.FreeBalance = FreeBalance
            /\ \A kitty_id \in KittyIds, max_price \in Prices :
                    LET out == buy_kitty(Store, origin, kitty_id, max_price)
                        p == Kitties[t].price
                    IN  OwnerChanged(out, t) =>
                            /\ out.result = Ok
                            /\ origin # a
                            /\ kitty_id = t
                            /\ out.S.KittyOwner[t] = origin
                            /\ 0 < p
                            /\ p <= max_price
                            /\ out.S.FreeBalance[origin] = FreeBalance[origin] - p
                            /\ out.S.FreeBalance[a] = FreeBalance[a] + p
                            /\ \A x \in Accounts \ {origin, a} :
                                    out.S.FreeBalance[x] = FreeBalance[x]

\* A kitty has just passed from its owner to the other account by a transfer,
\* while it is up for sale and the other kitty is not.
C18_Witness ==
    /\ last.op = "transfer"
    /\ last.result = Ok
    /\ \E a \in Accounts, b \in Accounts, t \in DOMAIN Kitties, u \in DOMAIN Kitties :
            /\ a # b
            /\ last.events = <<Transferred(a, b, t)>>
            /\ KittyOwner[t] = b
            /\ Kitties[t].price > 0
            /\ Kitties[u].price = 0

\* The call of this step was a successful buy_kitty of kitty t.
BoughtInStep(t) ==
    /\ last'.op = "buy_kitty"
    /\ last'.result = Ok
    /\ \E buyer \in Accounts, seller \in Accounts, p \in Prices :
            last'.events = <<Transferred(seller, buyer, t), Bought(buyer, seller, t, p)>>

\* C19: a kitty is born not for sale, is for sale when it is bought and is not
\* for sale right after, and the only step that takes a kitty from not for
\* sale to for sale is a successful set_price with a nonzero price called by
\* the account that owns it in that step.  Hence between two successful
\* purchases of a kitty lies such a set_price, and a kitty on which set_price
\* was never called is never bought.
C19_SaleNeedsSetPrice ==
    [][/\ \A t \in DOMAIN Kitties' \ DOMAIN Kitties : Kitties'[t].price = 0
       /\ \A t \in DOMAIN Kitties :
            /\ BoughtInStep(t) => (Kitties[t].price > 0 /\ Kitties'[t].price = 0)
            /\ (Kitties[t].price = 0 /\ Kitties'[t].price # 0) =>
                    /\ last'.op = "set_price"
                    /\ last'.result = Ok
                    /\ last'.events = <<PriceSet(KittyOwner[t], t, Kitties'[t].price)>>
                    /\ KittyOwner'[t] = KittyOwner[t]]_vars

\* The only kitty has just been bought for the second time: the money of the
\* first purchase has flowed back, so every balance is the initial one again.
C19_Witness ==
    /\ last.op = "buy_kitty"
    /\ last.result = Ok
    /\ AllKittiesCount = 1
    /\ \A a \in Accounts : FreeBalance[a] = InitBalance
    /\ \A t \in DOMAIN Kitties : Kitties[t].price = 0

\* C20: an account that owns a kitty has an OwnedKittiesCount of at least 1,
\* so once transfer or buy_kitty has verified the owner, the checked_sub of
\* _transfer_from does not fail: no call of either returns the underflow error.
C20_NoUnderflow ==
    /\ \A a \in Accounts : KittiesOf(a) # {} => OwnedCount(a) >= 1
    /\ \A origin \in Origins, kitty_id \in KittyIds :
            /\ \A to \in Accounts :
                    transfer(Store, origin, to, kitty_id).result # ErrTransferUnderflow
            /\ \A max_price \in Prices :
                    buy_kitty(Store, origin, kitty_id, max_price).result # ErrTransferUnderflow

\* An account has just transferred away its only kitty: its count went from 1
\* to 0, the smallest count the decrement is ever applied to.
C20_Witness ==
    /\ last.op = "transfer"
    /\ last.result = Ok
    /\ \E a \in Accounts, b \in Accounts, t \in DOMAIN Kitties :
            /\ a # b
            /\ last.events = <<Transferred(a, b, t)>>
            /\ KittiesOf(a) = {}
            /\ a \in DOMAIN OwnedKittiesCount
            /\ OwnedKittiesCount[a] = 0

\* C15: a breed_kitty(caller, p1, p2) that returns Ok was made by a signed
\* caller on two existing parents (possibly the same one) and creates one
\* kitty, with gen one more than the larger of the parents' gens and price 0,
\* owned by the caller whoever owns the parents; every existing kitty's record
\* and owner, the parents' included, are as before.  If either parent does not
\* exist the call fails and changes nothing.
C15_BreedKitty ==
    \A origin \in Origins, p1 \in BreedIds, p2 \in BreedIds, r \in BreedHashes :
        LET out == breed_kitty(Store, origin, p1, p2, r)
        IN  /\ out.result = Ok =>
                /\ origin \in Accounts
                /\ p1 \in DOMAIN Kitties
                /\ p2 \in DOMAIN Kitties
                /\ DOMAIN out.S.Kitties = DOMAIN Kitties \cup {r}
                /\ r \notin DOMAIN Kitties
                /\ out.S.Kitties[r].gen > Kitties[p1].gen
                /\ out.S.Kitties[r].gen > Kitties[p2].gen
                /\ out.S.Kitties[r].gen \in {Kitties[p1].gen + 1, Kitties[p2].gen + 1}
                /\ out.S.Kitties[r].price = 0
                /\ out.S.KittyOwner[r] = origin
                /\ \A t \in DOMAIN Kitties :
                        /\ out.S.Kitties[t] = Kitties[t]
                        /\ out.S.KittyOwner[t] = KittyOwner[t]
            /\ (p1 \notin DOMAIN Kitties \/ p2 \notin DOMAIN Kitties) =>
                    (out.result # Ok /\ out.S = Store)

\* A breed has just made a kitty of generation 2 for a caller who owns no other
\* kitty, so neither parent: the kitties of generation 0 and 1 are the other
\* account's.
C15_Witness ==
    /\ last.op = "breed_kitty"
    /\ last.result = Ok
    /\ \E caller \in Accounts, child \in DOMAIN Kitties :
            /\ last.events = <<Created(caller, child)>>
            /\ Kitties[child].gen = 2
            /\ KittiesOf(caller) = {child}
            /\ \E t \in DOMAIN Kitties, u \in DOMAIN Kitties :
                    /\ Kitties[t].gen = 0
                    /\ Kitties[u].gen = 1

\* C17: the dna of the child of a successful breed_kitty with parents p1, p2
\* and random hash r has the length of the parents' dna; at each position i it
\* is the byte of p2's dna if r[i] is even and the byte of p1's dna if r[i] is
\* odd, so it is always the byte one of the parents has at that position.
C17_ChildDna ==
    \A caller \in Accounts, p1 \in DOMAIN Kitties, p2 \in DOMAIN Kitties, r \in BreedHashes :
        LET out == breed_kitty(Store, caller, p1, p2, r)
            dna_1 == Kitties[p1].dna
            dna_2 == Kitties[p2].dna
        IN  out.result = Ok =>
                /\ DOMAIN out.S.Kitties[r].dna = DOMAIN dna_1
                /\ DOMAIN out.S.Kitties[r].dna = DOMAIN dna_2
                /\ \A i \in DOMAIN dna_1 :
                        /\ (r[i] % 2 = 0) => out.S.Kitties[r].dna[i] = dna_2[i]
                        /\ (r[i] % 2 = 1) => out.S.Kitties[r].dna[i] = dna_1[i]
                        /\ out.S.Kitties[r].dna[i] \in {dna_1[i], dna_2[i]}

\* A breed has just made a kitty whose dna is that of no other kitty: it has a
\* byte of each of two parents that differ in every byte.
C17_Witness ==
    /\ last.op = "breed_kitty"
    /\ last.result = Ok
    /\ \E caller \in Accounts, child \in DOMAIN Kitties :
            /\ last.events = <<Created(caller, child)>>
            /\ \A t \in DOMAIN Kitties \ {child} : Kitties[t].dna # Kitties[child].dna
            /\ \E t \in DOMAIN Kitties, u \in DOMAIN Kitties :
                    /\ Kitties[child].dna[1] = Kitties[t].dna[1]
                    /\ Kitties[child].dna[2] = Kitties[u].dna[2]
                    /\ Kitties[child].dna # Kitties[t].dna
                    /\ Kitties[child].dna # Kitties[u].dna
                    /\ \A i \in HashBytes : Kitties[t].dna[i] # Kitties[u].dna[i]

====
